---------------------------- MODULE Spec2Model ----------------------------
(***************************************************************************)
(* Model of the movie recommender service (src/app.py): the two artifacts  *)
(* loaded at import time, the title resolver find_best_movie_match, the    *)
(* ranking done by recommend_movies and the read endpoints.                *)
(*                                                                         *)
(* Strings are sequences of one-character strings.  Row indices are the    *)
(* 0-based positions of the DataFrame (a default RangeIndex), so position  *)
(* p of a TLA+ sequence is row p-1.  Similarity scores are integers: only  *)
(* their order and equality matter to the code.                            *)
(***************************************************************************)
EXTENDS Integers, Sequences, FiniteSets, TLC

(* ------------------------------ bounds --------------------------------- *)

\* longest query of the resolver specification
MaxLen == 3
\* largest catalog of the resolver specification
MaxTitles == 2
\* largest catalog / matrix of the ranking and lifecycle specifications
MaxMovies == 3
\* requests served in one behaviour of the lifecycle specification
MaxRequests == 3
\* similarity scores range over 0..MaxScore
MaxScore == 2
\* num_recommendations and limit range over -MaxCount..MaxCount
MaxCount == 4

(* ----------------------------- characters ------------------------------ *)

\* the characters of titles and queries: letters in both cases, a blank, and
\* two characters that are special in a regular expression
Alphabet == {"a", "b", "A", " ", ".", "("}

\* code point of a character (str comparison compares code points)
Ord(c) ==
  CASE c = " " -> 32
    [] c = "(" -> 40
    [] c = "." -> 46
    [] c = "A" -> 65
    [] c = "a" -> 97
    [] c = "b" -> 98

\* str.lower() on one character
LowerChar(c) == IF c = "A" THEN "a" ELSE c

\* str.lower()
Lower(s) == [k \in 1..Len(s) |-> LowerChar(s[k])]

IsSpace(c) == c = " "

RECURSIVE LStrip(_)
LStrip(s) == IF s # <<>> /\ IsSpace(Head(s)) THEN LStrip(Tail(s)) ELSE s

RECURSIVE RStrip(_)
RStrip(s) ==
  IF s # <<>> /\ IsSpace(s[Len(s)]) THEN RStrip(SubSeq(s, 1, Len(s) - 1)) ELSE s

\* str.strip()
Strip(s) == LStrip(RStrip(s))

\* x < y for str: lexicographic by code point, a proper prefix is smaller
RECURSIVE StrLess(_, _)
StrLess(x, y) ==
  IF y = <<>> THEN FALSE
  ELSE IF x = <<>> THEN TRUE
  ELSE IF Head(x) # Head(y) THEN Ord(Head(x)) < Ord(Head(y))
  ELSE StrLess(Tail(x), Tail(y))

\* all strings over alphabet A of length 0..n
StringsUpTo(A, n) == UNION {[1..k -> A] : k \in 0..n}

Min(a, b) == IF a <= b THEN a ELSE b
Max(a, b) == IF a >= b THEN a ELSE b

(* ------------------------- regular expressions ------------------------- *)

\* re.compile(pat) succeeds: over Alphabet the only way to fail is an
\* opening parenthesis, which can never be closed
RegexCompiles(pat) == \A k \in 1..Len(pat) : pat[k] # "("

\* one pattern character against one subject character: "." is any character
RegexCharMatches(p, c) == p = "." \/ p = c

\* pat.search(s) is not None, for a pattern that compiles
RegexSearch(pat, s) ==
  \E start \in 1..(Len(s) - Len(pat) + 1) :
    \A k \in 1..Len(pat) : RegexCharMatches(pat[k], s[start + k - 1])

\* Series.str.contains(pat, na=False) on one title: regex=True is the default
StrContains(s, pat) == RegexSearch(pat, s)

(* ------------------- difflib.SequenceMatcher(a, b) --------------------- *)

\* find_longest_match: the longest common block a[i..i+k-1] = b[j..j+k-1];
\* of the longest the one starting earliest in a, then earliest in b
Blocks(a, b) ==
  {<<i, j, k>> \in (1..Len(a)) \X (1..Len(b)) \X (1..Min(Len(a), Len(b))) :
     /\ i + k - 1 <= Len(a)
     /\ j + k - 1 <= Len(b)
     /\ SubSeq(a, i, i + k - 1) = SubSeq(b, j, j + k - 1)}

BetterBlock(x, y) ==
  \/ x[3] > y[3]
  \/ x[3] = y[3] /\ x[1] < y[1]
  \/ x[3] = y[3] /\ x[1] = y[1] /\ x[2] < y[2]

find_longest_match(a, b) ==
  CHOOSE x \in Blocks(a, b) : \A y \in Blocks(a, b) \ {x} : BetterBlock(x, y)

\* get_matching_blocks: total size of the blocks found by splitting around
\* the longest match and recursing to its left and to its right
RECURSIVE Matches(_, _)
Matches(a, b) ==
  IF Blocks(a, b) = {} THEN 0
  ELSE LET m == find_longest_match(a, b)
       IN m[3]
          + Matches(SubSeq(a, 1, m[1] - 1), SubSeq(b, 1, m[2] - 1))
          + Matches(SubSeq(a, m[1] + m[3], Len(a)), SubSeq(b, m[2] + m[3], Len(b)))

\* number of occurrences of c in s
Count(s, c) == Cardinality({k \in 1..Len(s) : s[k] = c})

RECURSIVE SumOver(_, _, _)
SumOver(S, a, b) ==
  IF S = {} THEN 0
  ELSE LET c == CHOOSE x \in S : TRUE
       IN Min(Count(a, c), Count(b, c)) + SumOver(S \ {c}, a, b)

\* A ratio 2.0*matches/length is kept as the pair <<2*matches, length>>;
\* _calculate_ratio returns 1.0 when both strings are empty.
CalculateRatio(matches, length) ==
  IF length > 0 THEN <<2 * matches, length>> ELSE <<1, 1>>

\* ratio(): a is the catalog title, b the query
Ratio(a, b) == CalculateRatio(Matches(a, b), Len(a) + Len(b))

\* quick_ratio(): multiset intersection of the characters
QuickRatio(a, b) == CalculateRatio(SumOver(Alphabet, a, b), Len(a) + Len(b))

\* real_quick_ratio()
RealQuickRatio(a, b) == CalculateRatio(Min(Len(a), Len(b)), Len(a) + Len(b))

\* comparisons of ratios (pairs <<num, den>> with den > 0)
RatioGeq(r, c) == r[1] * c[2] >= c[1] * r[2]
RatioGt(r, c) == r[1] * c[2] > c[1] * r[2]
RatioEq(r, c) == r[1] * c[2] = c[1] * r[2]

(* ---------------------- difflib.get_close_matches ---------------------- *)

\* the (score, x) pairs of the possibilities that pass the three tests, in
\* the order of the possibilities
RECURSIVE Scored(_, _, _)
Scored(word, possibilities, cutoff) ==
  IF possibilities = <<>> THEN <<>>
  ELSE LET x == Head(possibilities)
           rest == Scored(word, Tail(possibilities), cutoff)
       IN IF /\ RatioGeq(RealQuickRatio(x, word), cutoff)
             /\ RatioGeq(QuickRatio(x, word), cutoff)
             /\ RatioGeq(Ratio(x, word), cutoff)
          THEN <<[score |-> Ratio(x, word), x |-> x]>> \o rest
          ELSE rest

\* tuple comparison (score, x) > (score', x')
PairGreater(p, q) ==
  \/ RatioGt(p.score, q.score)
  \/ RatioEq(p.score, q.score) /\ StrLess(q.x, p.x)

\* position of the first greatest pair of a non-empty list
ArgMax(result) ==
  CHOOSE k \in 1..Len(result) :
    /\ \A m \in 1..Len(result) : ~PairGreater(result[m], result[k])
    /\ \A m \in 1..(k - 1) : PairGreater(result[k], result[m])

RemoveAt(s, k) == SubSeq(s, 1, k - 1) \o SubSeq(s, k + 1, Len(s))

\* heapq.nlargest(n, result): the n greatest pairs, greatest first
RECURSIVE NLargest(_, _)
NLargest(n, result) ==
  IF n <= 0 \/ result = <<>> THEN <<>>
  ELSE LET k == ArgMax(result)
       IN <<result[k]>> \o NLargest(n - 1, RemoveAt(result, k))

get_close_matches(word, possibilities, n, cutoff) ==
  LET best == NLargest(n, Scored(word, possibilities, cutoff))
  IN [k \in 1..Len(best) |-> best[k].x]


(* ------------------------------ values --------------------------------- *)

\* Python's None, and a value that is not None
None == [is_none |-> TRUE, value |-> <<>>]
Some(v) == [is_none |-> FALSE, value |-> v]

\* the 0.6 and 0.3 cutoffs of find_best_movie_match
MatchCutoff == <<6, 10>>
SuggestionCutoff == <<3, 10>>
\* n of the suggestions call, and the suggestions[:5] of the 404 payload
MaxSuggestions == 5
\* default of RecommendationRequest.num_recommendations
DefaultCount == 5

\* seq[start:stop] of Python, 0-based, negative positions counted from the end
SliceBound(i, len) == IF i < 0 THEN Max(i + len, 0) ELSE Min(i, len)

Slice(s, start, stop) ==
  SubSeq(s, SliceBound(start, Len(s)) + 1, SliceBound(stop, Len(s)))

\* the lowest element of a non-empty set of positions
Lowest(S) == CHOOSE p \in S : \A q \in S : p <= q

(* ----------------------- find_best_movie_match ------------------------- *)

Resolved(index, title) ==
  [kind |-> "resolved", index |-> index, title |-> title, suggestions |-> <<>>]
Unresolved(suggestions) ==
  [kind |-> "unresolved", index |-> -1, title |-> <<>>, suggestions |-> suggestions]
\* an exception leaves the function (re.error from the contains tier)
Raised == [kind |-> "raised", index |-> -1, title |-> <<>>, suggestions |-> <<>>]

\* movies_df['title'].tolist()
AllTitles(df) == [p \in 1..Len(df) |-> df[p].title]

\* variant of TitleLower that forgets to trim the query
TitleLowerUntrimmed(title) == Lower(title)

\* title.lower().strip()
TitleLower(title) == Strip(Lower(title))

\* rows of movies_df[movies_df['title'].str.lower() == title_lower]
ExactMatch(title_lower, df) ==
  {p \in 1..Len(df) : Lower(df[p].title) = title_lower}

\* rows of movies_df[movies_df['title'].str.lower().str.contains(title_lower)]
ContainsMatch(title_lower, df) ==
  {p \in 1..Len(df) : StrContains(Lower(df[p].title), title_lower)}

\* rows of movies_df[movies_df['title'] == matched_title]
TitleRows(matched_title, df) == {p \in 1..Len(df) : df[p].title = matched_title}

find_best_movie_match(title, df) ==
  LET title_lower == TitleLower(title)
      exact_match == ExactMatch(title_lower, df)
      contains_match == ContainsMatch(title_lower, df)
      all_titles == AllTitles(df)
      close_matches == get_close_matches(title, all_titles, 1, MatchCutoff)
      suggestions ==
        get_close_matches(title, all_titles, MaxSuggestions, SuggestionCutoff)
  IN IF exact_match # {}
       THEN Resolved(Lowest(exact_match) - 1, df[Lowest(exact_match)].title)
     ELSE IF ~RegexCompiles(title_lower)
       THEN Raised
     ELSE IF contains_match # {}
       THEN Resolved(Lowest(contains_match) - 1, df[Lowest(contains_match)].title)
     ELSE IF close_matches # <<>>
       THEN Resolved(Lowest(TitleRows(close_matches[1], df)) - 1, close_matches[1])
     ELSE Unresolved(suggestions)

(* ------------------------------ responses ------------------------------ *)

Response(status, detail) ==
  [status |-> status, detail |-> detail, matched_movie |-> <<>>,
   recommendations |-> <<>>, suggestions |-> <<>>, movies |-> <<>>,
   total |-> 0, model_loaded |-> FALSE]

NotLoaded == Response(500, "Model not loaded")

\* sorted(list(enumerate(distances)), reverse=True, key=lambda x: x[1]):
\* a stable sort, so columns of equal score keep their ascending order
\* variant of InsertByScore that puts a column before the columns of equal
\* score (what sorting ascending and reversing the list would give)
RECURSIVE InsertBeforeEqual(_, _)
InsertBeforeEqual(sorted, x) ==
  IF sorted = <<>> THEN <<x>>
  ELSE IF Head(sorted).score <= x.score THEN <<x>> \o sorted
  ELSE <<Head(sorted)>> \o InsertBeforeEqual(Tail(sorted), x)

RECURSIVE InsertByScore(_, _)
InsertByScore(sorted, x) ==
  IF sorted = <<>> THEN <<x>>
  ELSE IF Head(sorted).score < x.score THEN <<x>> \o sorted
  ELSE <<Head(sorted)>> \o InsertByScore(Tail(sorted), x)

RECURSIVE SortedByScore(_, _)
SortedByScore(pairs, upto) ==
  IF upto = 0 THEN <<>>
  ELSE InsertByScore(SortedByScore(pairs, upto - 1), pairs[upto])

\* list(enumerate(distances)): column i (0-based) with its score
Enumerate(distances) ==
  [p \in 1..Len(distances) |-> [i |-> p - 1, score |-> distances[p]]]

\* the slice [1 : num_recommendations + 1] of the sorted pairs
MoviesList(distances, num_recommendations) ==
  Slice(SortedByScore(Enumerate(distances), Len(distances)),
        1, num_recommendations + 1)

recommend_movies(df, sim, movie_title, num_recommendations) ==
  IF df.is_none \/ sim.is_none THEN NotLoaded
  ELSE
    LET result == find_best_movie_match(movie_title, df.value)
        generic == Response(500, "Error generating recommendations")
    IN IF result.kind = "raised" THEN generic
       ELSE IF result.kind = "unresolved"
         THEN [Response(404, "not found") EXCEPT
                 !.suggestions = Slice(result.suggestions, 0, MaxSuggestions)]
       \* similarity[movie_index] raises IndexError past the last row
       ELSE IF result.index >= Len(sim.value) THEN generic
       ELSE
         LET movies_list ==
               MoviesList(sim.value[result.index + 1], num_recommendations)
         IN \* movies_df.iloc[i] raises IndexError past the last row
            IF \E k \in 1..Len(movies_list) : movies_list[k].i >= Len(df.value)
              THEN generic
            ELSE [Response(200, "") EXCEPT
                    !.matched_movie = result.title,
                    !.recommendations =
                       [k \in 1..Len(movies_list) |->
                          [movie_id |-> df.value[movies_list[k].i + 1].movie_id,
                           title |-> df.value[movies_list[k].i + 1].title,
                           similarity_score |-> movies_list[k].score]]]

(* --------------------------- other endpoints --------------------------- *)

read_root == Response(200, "Movie Recommender ML Service")

health_check(df) ==
  [Response(200, "healthy") EXCEPT
     !.model_loaded = ~df.is_none,
     !.total = IF ~df.is_none THEN Len(df.value) ELSE 0]

\* df[['movie_id', 'title']].to_dict('records')
IdAndTitle(rows) ==
  [k \in 1..Len(rows) |-> [movie_id |-> rows[k].movie_id, title |-> rows[k].title]]

get_all_movies(df) ==
  IF df.is_none THEN NotLoaded
  ELSE [Response(200, "") EXCEPT
          !.movies = IdAndTitle(df.value), !.total = Len(df.value)]

get_movie_by_id(df, movie_id) ==
  IF df.is_none THEN NotLoaded
  ELSE LET movie == {p \in 1..Len(df.value) : df.value[p].movie_id = movie_id}
       IN IF movie = {} THEN Response(404, "Movie not found")
          ELSE [Response(200, "") EXCEPT
                  !.movies = IdAndTitle(<<df.value[Lowest(movie)]>>)]

\* the rows of a DataFrame selected by a set of positions, in catalog order
RECURSIVE Select(_, _, _)
Select(rows, keep, upto) ==
  IF upto = 0 THEN <<>>
  ELSE Select(rows, keep, upto - 1)
         \o (IF upto \in keep THEN <<rows[upto]>> ELSE <<>>)

\* DataFrame.head(n): the first n rows, or all but the last -n
HeadRows(rows, n) ==
  IF n >= 0 THEN SubSeq(rows, 1, Min(n, Len(rows)))
  ELSE SubSeq(rows, 1, Max(Len(rows) + n, 0))

search_movies(df, query, limit) ==
  IF df.is_none THEN NotLoaded
  \* re.error is not caught here: the framework answers 500
  ELSE IF ~RegexCompiles(Lower(query)) THEN Response(500, "Internal Server Error")
  ELSE LET matches ==
             Select(df.value, ContainsMatch(Lower(query), df.value), Len(df.value))
       IN [Response(200, "") EXCEPT
             !.movies = IdAndTitle(HeadRows(matches, limit)),
             !.total = Len(matches)]


(* ------------------------------- state --------------------------------- *)

VARIABLES
  catalogFile,   \* content of movies.pkl, or None when it cannot be loaded
  matrixFile,    \* content of similarity.pkl, or None when it cannot be loaded
  movies_df,     \* the module global movies_df
  similarity,    \* the module global similarity
  phase,         \* "start" before the module-level load, "serving" after it
  request,       \* the last request received
  response,      \* the answer to it
  probe,         \* observer: the first request served and its answer
  budget         \* number of requests the behaviour may still serve

vars ==
  <<catalogFile, matrixFile, movies_df, similarity, phase, request, response,
    probe, budget>>

NoRequest ==
  [endpoint |-> "none", movie_title |-> <<>>, num |-> 0, movie_id |-> 0]
NoResponse == Response(0, "")

ProbeOff == [state |-> "off", request |-> NoRequest, response |-> NoResponse]
ProbeArmed == [state |-> "armed", request |-> NoRequest, response |-> NoResponse]

(* ------------------------------ artifacts ------------------------------ *)

\* movie_id of the row at position p: unique, unrelated to the position
MovieId(p) == 100 + p

\* a catalog with the given titles, in that order
Catalog(titles) ==
  [p \in 1..Len(titles) |-> [movie_id |-> MovieId(p), title |-> titles[p]]]

\* a square matrix all of whose rows are the given row: recommend_movies
\* reads the one row of the resolved movie, so every (row index, row
\* content) pair occurs in this family
Matrix(row) == [p \in 1..Len(row) |-> row]

\* title of row p-1 in the ranking and lifecycle catalogs: "a", "aa", ...
UnaryTitle(p) == [k \in 1..p |-> "a"]

UnaryCatalog(n) == Catalog([p \in 1..n |-> UnaryTitle(p)])

Rows(n) == [1..n -> 0..MaxScore]

\* titles of the resolver catalogs: an empty title, a case-fold collision,
\* two titles equally close to "aba", a title with a full stop
TitlePool == {<<>>, <<"a">>, <<"A">>, <<"a", "b">>, <<"b", "a">>, <<"b", ".">>}

\* (the empty catalog is part of the ranking and lifecycle specifications)
ResolverCatalogs ==
  {Catalog(ts) : ts \in UNION {[1..n -> TitlePool] : n \in 1..MaxTitles}}

\* the row of the resolver and lifecycle matrices: scores falling from n
\* in column 0 to 1 in column n-1
RankedRow(n) == [j \in 1..n |-> n + 1 - j]

(* ------------------------------- actions ------------------------------- *)

\* variant of Load whose handler resets only the global whose load failed
LoadResetsOnlyTheFailed ==
  /\ phase = "start"
  /\ phase' = "serving"
  /\ movies_df' = catalogFile
  /\ similarity' = IF catalogFile.is_none THEN None ELSE matrixFile
  /\ UNCHANGED <<catalogFile, matrixFile, request, response, probe, budget>>

\* lines 23-31: both artifacts are loaded in one try block; any failure
\* leaves both globals None
Load ==
  /\ phase = "start"
  /\ phase' = "serving"
  /\ IF catalogFile.is_none \/ matrixFile.is_none
       THEN movies_df' = None /\ similarity' = None
       ELSE movies_df' = catalogFile /\ similarity' = matrixFile
  /\ UNCHANGED <<catalogFile, matrixFile, request, response, probe, budget>>

\* the service is up and the behaviour may serve another request
CanServe == phase = "serving" /\ budget > 0

\* variant of Serve in which answering sorts the rows of the matrix in place
\* (ndarray.sort(): ascending)
ServeSortsInPlace(req, resp) ==
  /\ CanServe
  /\ budget' = budget - 1
  /\ request' = req
  /\ response' = resp
  /\ probe' = IF probe.state = "armed"
                THEN [state |-> "recorded", request |-> req, response |-> resp]
                ELSE probe
  /\ similarity' =
       IF similarity.is_none THEN similarity
       ELSE Some([p \in 1..Len(similarity.value) |->
                   LET sorted == SortedByScore(Enumerate(similarity.value[p]),
                                               Len(similarity.value[p]))
                   IN [k \in 1..Len(sorted) |-> sorted[Len(sorted) + 1 - k].score]])
  /\ UNCHANGED <<catalogFile, matrixFile, movies_df, phase>>

\* a request is answered: the globals are read, never written
Serve(req, resp) ==
  /\ CanServe
  /\ budget' = budget - 1
  /\ request' = req
  /\ response' = resp
  /\ probe' = IF probe.state = "armed"
                THEN [state |-> "recorded", request |-> req, response |-> resp]
                ELSE probe
  /\ UNCHANGED <<catalogFile, matrixFile, movies_df, similarity, phase>>

ReadRoot ==
  Serve([NoRequest EXCEPT !.endpoint = "/"], read_root)

HealthCheck ==
  Serve([NoRequest EXCEPT !.endpoint = "/health"], health_check(movies_df))

GetAllMovies ==
  Serve([NoRequest EXCEPT !.endpoint = "/movies"], get_all_movies(movies_df))

GetMovieById(movie_id) ==
  Serve([NoRequest EXCEPT !.endpoint = "/movie", !.movie_id = movie_id],
        get_movie_by_id(movies_df, movie_id))

SearchMovies(query, limit) ==
  Serve([NoRequest EXCEPT !.endpoint = "/search", !.movie_title = query,
                          !.num = limit],
        search_movies(movies_df, query, limit))

RecommendMovies(movie_title, num_recommendations) ==
  Serve([NoRequest EXCEPT !.endpoint = "/recommend",
                          !.movie_title = movie_title,
                          !.num = num_recommendations],
        recommend_movies(movies_df, similarity, movie_title, num_recommendations))

(* --------------------- lifecycle specification ------------------------- *)

\* Each artifact is missing or holds a catalog / a matrix of up to MaxMovies
\* rows: the sizes of the two are independent.  A behaviour serves up to
\* MaxRequests requests, the first of which the probe records.
LifeQueries == {<<"A">>, <<"(">>}
LifeCounts == {1}
LifeIds == {MovieId(1), MovieId(MaxMovies + 1)}

Init ==
  /\ catalogFile \in {None} \cup {Some(UnaryCatalog(n)) : n \in 0..MaxMovies}
  /\ matrixFile \in {None} \cup {Some(Matrix(RankedRow(n))) : n \in 0..MaxMovies}
  /\ movies_df = None
  /\ similarity = None
  /\ phase = "start"
  /\ request = NoRequest
  /\ response = NoResponse
  /\ probe = ProbeArmed
  /\ budget = MaxRequests

Next ==
  \/ Load
  \/ ReadRoot
  \/ HealthCheck
  \/ GetAllMovies
  \/ CanServe /\ \E movie_id \in LifeIds : GetMovieById(movie_id)
  \/ CanServe /\ \E query \in LifeQueries, limit \in LifeCounts :
                   SearchMovies(query, limit)
  \/ CanServe /\ \E movie_title \in LifeQueries, n \in LifeCounts :
                   RecommendMovies(movie_title, n)

Spec == Init /\ [][Next]_vars

(* ---------------------- ranking specification -------------------------- *)

\* A catalog of n movies with a matrix of n rows over all score rows;
\* recommend is asked once, for each title (and a blank) with each count.
\* One request per behaviour is enough here: no request changes the state.
RankQueries == {UnaryTitle(p) : p \in 0..MaxMovies}
RankCounts == (-MaxCount)..MaxCount

InitRank ==
  /\ \E n \in 0..MaxMovies :
       /\ catalogFile = Some(UnaryCatalog(n))
       /\ matrixFile \in {Some(Matrix(r)) : r \in Rows(n)}
  /\ movies_df = None
  /\ similarity = None
  /\ phase = "start"
  /\ request = NoRequest
  /\ response = NoResponse
  /\ probe = ProbeOff
  /\ budget = 1

NextRank ==
  \/ Load
  \/ CanServe /\ \E movie_title \in RankQueries, n \in RankCounts :
                   RecommendMovies(movie_title, n)

SpecRank == InitRank /\ [][NextRank]_vars

(* ---------------------- resolver specification ------------------------- *)

\* Any non-empty catalog over TitlePool with its matrix of the same size; recommend
\* is asked once, with every query of up to MaxLen characters.
Queries == StringsUpTo(Alphabet, MaxLen)

InitResolve ==
  /\ catalogFile \in {Some(c) : c \in ResolverCatalogs}
  /\ matrixFile = Some(Matrix(RankedRow(Len(catalogFile.value))))
  /\ movies_df = None
  /\ similarity = None
  /\ phase = "start"
  /\ request = NoRequest
  /\ response = NoResponse
  /\ probe = ProbeOff
  /\ budget = 1

NextResolve ==
  \/ Load
  \/ CanServe /\ \E movie_title \in Queries :
                   RecommendMovies(movie_title, DefaultCount)

SpecResolve == InitResolve /\ [][NextResolve]_vars


(* =============================== claims ================================ *)

\* notions of the claims, stated apart from the handlers of the code

\* q occurs in t as a contiguous substring
IsSubstring(q, t) ==
  \E start \in 0..(Len(t) - Len(q)) : SubSeq(t, start + 1, start + Len(q)) = q

\* every character of q is a blank
IsBlank(q) == \A k \in 1..Len(q) : q[k] = " "

\* 1-based position of column p of a row when the columns are ordered by
\* non-increasing score, equal scores by ascending column
RankPosition(row, p) ==
  1 + Cardinality({q \in 1..Len(row) : row[q] > row[p] \/ (row[q] = row[p] /\ q < p)})

\* the catalog position of the movie with the given id
PositionOfId(df, movie_id) == CHOOSE p \in 1..Len(df) : df[p].movie_id = movie_id

\* recs is the part after the first entry, cut to count, of the ranking of row
IsRankedSlice(recs, df, row, count) ==
  /\ Len(recs) = Min(count, Len(row) - 1)
  /\ \A k \in 1..Len(recs) :
       /\ \E p \in 1..Len(df) : df[p].movie_id = recs[k].movie_id
       /\ LET p == PositionOfId(df, recs[k].movie_id)
          IN /\ RankPosition(row, p) = k + 1
             /\ recs[k].title = df[p].title
             /\ recs[k].similarity_score = row[p]

\* the state after a /recommend request was answered by a loaded service
\* whose matrix has as many rows as the catalog
Recommended ==
  /\ phase = "serving"
  /\ request.endpoint = "/recommend"
  /\ ~movies_df.is_none
  /\ ~similarity.is_none
  /\ Len(similarity.value) = Len(movies_df.value)

\* what the resolver returned for the last request
LastResult == find_best_movie_match(request.movie_title, movies_df.value)

\* rows whose title equals the trimmed, lower-cased query ignoring case
ExactRows ==
  {p \in 1..Len(movies_df.value) :
     Lower(movies_df.value[p].title) = Strip(Lower(request.movie_title))}

\* rows whose title contains the trimmed, lower-cased query ignoring case
SubstringRows ==
  {p \in 1..Len(movies_df.value) :
     IsSubstring(Strip(Lower(request.movie_title)), Lower(movies_df.value[p].title))}

\* rows whose title has a ratio of at least c to the raw query
RowsWithRatio(c) ==
  {p \in 1..Len(movies_df.value) :
     RatioGeq(Ratio(movies_df.value[p].title, request.movie_title), c)}

\* rows of the greatest ratio to the raw query
BestRows ==
  {p \in 1..Len(movies_df.value) :
     \A q \in 1..Len(movies_df.value) :
       RatioGeq(Ratio(movies_df.value[p].title, request.movie_title),
                Ratio(movies_df.value[q].title, request.movie_title))}

(* C1: for every row index i and count n with 1 <= n < catalog size, the   *)
(* recommendations for the movie resolved to index i never contain the     *)
(* movie at index i, whatever the scores of row i (ties with, or scores    *)
(* above, the self-similarity included).                                   *)
C1_NeverRecommendsItself ==
  (/\ Recommended
   /\ LastResult.kind = "resolved"
   /\ 1 <= request.num
   /\ request.num < Len(movies_df.value))
  => \A k \in 1..Len(response.recommendations) :
       response.recommendations[k].movie_id
         # movies_df.value[LastResult.index + 1].movie_id

(* C2: for every resolved index i and positive count n, recommend answers  *)
(* 200 with exactly the entries at positions 1..min(n, size-1) of row i's  *)
(* columns ordered by non-increasing score, equal scores by ascending      *)
(* column: a count above size-1 is clamped, not an error.                  *)
C2_RankedSlice ==
  (/\ Recommended
   /\ LastResult.kind = "resolved"
   /\ request.num >= 1)
  => /\ response.status = 200
     /\ IsRankedSlice(response.recommendations, movies_df.value,
                      similarity.value[LastResult.index + 1], request.num)

\* C2 witness: a count above size-1 was clamped to the two other movies,
\* which have equal scores
C2_Witness ==
  /\ Recommended
  /\ LastResult.kind = "resolved"
  /\ response.status = 200
  /\ request.num > Len(movies_df.value) - 1
  /\ Len(response.recommendations) = 2
  /\ response.recommendations[1].similarity_score
       = response.recommendations[2].similarity_score

(* C3: the tiers apply in strict priority.  If some title equals the       *)
(* trimmed, lower-cased query ignoring case, the lowest such row is        *)
(* returned with its stored title; otherwise, if some title contains the   *)
(* query, the lowest such row is returned; only otherwise does the result  *)
(* come from the approximate tier.  A resolved title is the title stored   *)
(* at the returned index.                                                  *)
C3_TierPriority ==
  Recommended =>
    /\ LastResult.kind # "raised"
    /\ LastResult.kind = "resolved" =>
         LastResult.title = movies_df.value[LastResult.index + 1].title
    /\ IF ExactRows # {}
         THEN LastResult.kind = "resolved" /\ LastResult.index + 1 = Lowest(ExactRows)
       ELSE IF SubstringRows # {}
         THEN LastResult.kind = "resolved" /\ LastResult.index + 1 = Lowest(SubstringRows)
       ELSE LastResult.kind = "resolved" =>
              LastResult.index + 1 \in RowsWithRatio(MatchCutoff)

(* C4: when no title equals and no title contains the query, the resolver  *)
(* resolves if and only if some title has a ratio of at least 0.6 to the   *)
(* query, and then to the lowest row among the titles of greatest ratio.   *)
C4_ApproximateTier ==
  (Recommended /\ ExactRows = {} /\ SubstringRows = {})
  => /\ LastResult.kind = "resolved" <=> RowsWithRatio(MatchCutoff) # {}
     /\ LastResult.kind = "resolved" => LastResult.index + 1 = Lowest(BestRows)

(* C5: when no tier matches, recommend answers 404 (never 500) with at     *)
(* most 5 suggestions, each a catalog title of ratio at least 0.3 to the   *)
(* query, in order of non-increasing ratio; none when no title reaches 0.3 *)
C5_NotFound ==
  (/\ Recommended
   /\ ExactRows = {}
   /\ SubstringRows = {}
   /\ RowsWithRatio(MatchCutoff) = {})
  => /\ response.status = 404
     /\ Len(response.suggestions) <= MaxSuggestions
     /\ \A k \in 1..Len(response.suggestions) :
          \E p \in RowsWithRatio(SuggestionCutoff) :
            movies_df.value[p].title = response.suggestions[k]
     /\ \A k \in 1..(Len(response.suggestions) - 1) :
          RatioGeq(Ratio(response.suggestions[k], request.movie_title),
                   Ratio(response.suggestions[k + 1], request.movie_title))
     /\ RowsWithRatio(SuggestionCutoff) = {} => response.suggestions = <<>>

(* C6: if either artifact fails to load, the service is not loaded for     *)
(* its whole lifetime: /movies, /movie/{id}, /search and /recommend answer *)
(* 500 "Model not loaded" and /health reports model_loaded = false and     *)
(* total_movies = 0, also when only the matrix failed to load.             *)
C6_DegradedMode ==
  (phase = "serving" /\ (catalogFile.is_none \/ matrixFile.is_none))
  => /\ movies_df.is_none
     /\ similarity.is_none
     /\ request.endpoint \in {"/movies", "/movie", "/search", "/recommend"}
          => response = NotLoaded
     /\ request.endpoint = "/health"
          => response.model_loaded = FALSE /\ response.total = 0

\* C6 witness: the catalog was readable, the matrix was not, and /movies
\* answered "Model not loaded"
C6_Witness ==
  /\ phase = "serving"
  /\ ~catalogFile.is_none
  /\ Len(catalogFile.value) > 0
  /\ matrixFile.is_none
  /\ request.endpoint = "/movies"
  /\ response.status = 500
  /\ response.detail = "Model not loaded"

(* C7: whenever the service is loaded (model_loaded = true), the matrix    *)
(* has as many rows as the catalog: a readable pair of different sizes is  *)
(* a load failure.                                                         *)
C7_SizesAgree ==
  (phase = "serving" /\ ~movies_df.is_none)
  => /\ ~similarity.is_none
     /\ Len(similarity.value) = Len(movies_df.value)

(* C8: after startup no request changes the catalog, the matrix or the     *)
(* loaded status, and a request repeated after any other requests gets the *)
(* answer it got the first time.                                           *)
C8_RequestsChangeNothing ==
  [][phase = "serving" =>
       /\ movies_df' = movies_df
       /\ similarity' = similarity
       /\ phase' = phase
       /\ (probe'.state = "recorded" /\ request' = probe'.request)
            => response' = probe'.response]_vars

\* C8 witness: the first request, a successful /recommend, was repeated as
\* the last request of the behaviour
C8_Witness ==
  /\ phase = "serving"
  /\ budget = 0
  /\ probe.state = "recorded"
  /\ request = probe.request
  /\ request.endpoint = "/recommend"
  /\ response.status = 200
  /\ response.recommendations # <<>>

(* C9: for a resolvable title and num_recommendations <= 0, recommend      *)
(* never returns a non-empty list of recommendations.                      *)
C9_NonPositiveCountGivesNothing ==
  (/\ Recommended
   /\ LastResult.kind = "resolved"
   /\ request.num <= 0)
  => response.recommendations = <<>>

(* C10: for a query that is empty after trimming, against a non-empty      *)
(* catalog without an empty title, the resolver returns row 0 with the     *)
(* first title, and recommend returns that movie's recommendations, never  *)
(* the not-found outcome.                                                  *)
C10_BlankQuery ==
  (/\ Recommended
   /\ IsBlank(request.movie_title)
   /\ Len(movies_df.value) > 0
   /\ \A p \in 1..Len(movies_df.value) : movies_df.value[p].title # <<>>)
  => /\ LastResult.kind = "resolved"
     /\ LastResult.index = 0
     /\ LastResult.title = movies_df.value[1].title
     /\ response.status = 200
     /\ response.matched_movie = movies_df.value[1].title
     /\ IsRankedSlice(response.recommendations, movies_df.value,
                      similarity.value[1], request.num)

\* C10 witness: a query of blanks was answered with the recommendation for
\* the first of two movies
C10_Witness ==
  /\ Recommended
  /\ request.movie_title # <<>>
  /\ IsBlank(request.movie_title)
  /\ Len(movies_df.value) = 2
  /\ \A p \in 1..Len(movies_df.value) : movies_df.value[p].title # <<>>
  /\ response.status = 200
  /\ Len(response.recommendations) = 1
  /\ response.recommendations[1].movie_id = movies_df.value[2].movie_id

=============================================================================
